---- MODULE Spec2Model ----
(***************************************************************************)
(* WS2812 PIO driver for the RP2040 (src/src/lib.rs).                      *)
(*                                                                         *)
(* Specifications over one set of variables:                               *)
(*   SpecNew   Ws2812Direct::new_generic, step by step, for sampled clocks *)
(*   SpecWord  ColorFormat::to_word, every value of each channel           *)
(*   Spec      the write path of a constructed driver (plain or gated)     *)
(*             running against the PIO state machine, its TX FIFO and the  *)
(*             countdown timer                                             *)
(*   LiveSpec  Spec with the fairness of the hardware and of the calling   *)
(*             thread                                                      *)
(*                                                                         *)
(* Time in Spec advances in ticks of one byte time: the state machine      *)
(* shifts one bit per 1/FREQ = 1.25 us, so 8 bits take 10 us, a 24-bit     *)
(* word 3 ticks, a 32-bit word 4 ticks and the 60 us latch wait 6 ticks.   *)
(*                                                                         *)
(* A 32-bit word is a tuple of four bytes, most significant first.         *)
(***************************************************************************)
EXTENDS Integers, Sequences, FiniteSets, TLC

VARIABLES
    format,      \* CF: "RGB8" (ThreeBytes) or "RGBW" (FourBytes)
    gated,       \* TRUE: Ws2812 (owns a countdown), FALSE: Ws2812Direct
    clock,       \* clock_freq in Hz (construction)
    npc,         \* position inside new_generic
    installed,   \* the PIO program is in instruction memory
    divisor,     \* the locals <<int, frac>> after the narrowing casts, or <<>>
    clkdiv,      \* the clock divisor the state machine was built with, or <<>>
    shiftcfg,    \* <<direction, autopull, pull_threshold>> or <<>>
    pindir,      \* "output" once set_pindirs ran, "unset" before
    running,     \* the state machine was started
    fifo,        \* TX FIFO: sequence of words
    osr,         \* output shift register (a word)
    osrCount,    \* bits shifted out of osr since the last pull
    smStalled,   \* the state machine waits at `out` for a word
    txstall,     \* sticky TXSTALL flag (has_stalled / clear_stalled_flag)
    sinceStall,  \* ticks since the state machine stalled, saturating at LatchTicks
    cdLeft,      \* ticks left on the countdown cd
    pc,          \* position of the calling thread inside write
    remaining,   \* items the iterator has still to yield
    color,       \* the colour last converted by to_word
    cur,         \* `word` of the loop body
    result,      \* what the last write returned
    callLen,     \* length of the sequence given to the current call
    accepted,    \* successful tx.write calls of the current call
    pending,     \* colours taken from the iterator and not yet pulled by the state machine
    writes,      \* write calls started so far, saturating at 2
    pioPc,       \* index of the PIO instruction to execute next
    delay,       \* delay cycles the last executed instruction still has to spend
    regX,        \* scratch register X
    line,        \* level of the side-set pin
    cell,        \* line levels of the cycles since the last executed `out`
    wire,        \* bits shifted out of the word in the shift register
    osrColor     \* the colour whose word is in the shift register

vars == <<format, gated, clock, npc, installed, divisor, clkdiv, shiftcfg, pindir, running,
          fifo, osr, osrCount, smStalled, txstall, sinceStall, cdLeft,
          pc, remaining, color, cur, result, callLen, accepted, pending, writes,
          pioPc, delay, regX, line, cell, wire, osrColor>>

cfgVars == <<format, gated, clock, npc, installed, divisor, clkdiv, shiftcfg, pindir, running>>
smVars == <<fifo, osr, osrCount, smStalled, txstall, sinceStall>>
hostVars == <<pc, remaining, color, cur, result, callLen, accepted, writes>>
pioVars == <<pioPc, delay, regX, line, cell, wire, osrColor>>

(***************************************************************************)
(* Bounds of the model.                                                    *)
(***************************************************************************)
MaxLen == 3          \* longest colour sequence given to one write
MaxClockK == 70      \* sampled clocks are k * ClockStep for k in 0..MaxClockK

(***************************************************************************)
(* Constants of the program and of the peripheral.                         *)
(***************************************************************************)
T1 == 2
T2 == 5
T3 == 3
CYCLES_PER_BIT == T1 + T2 + T3
FREQ == 800000
LatchMicros == 60
FifoDepth == 8       \* Buffers::OnlyTx joins both FIFOs into one TX FIFO of 8 words

\* let bit_freq = FREQ * CYCLES_PER_BIT;
bit_freq == FREQ * CYCLES_PER_BIT

Formats == {"RGB8", "RGBW"}

\* ColorBytes::num_bits
\* a threshold of 32 bits for both formats
num_bits_32(f) == 32
num_bits(f) == IF f = "RGB8" THEN 24 ELSE 32

\* nanoseconds the state machine needs for 8 bits at FREQ bits per second
ByteNanos == 8 * (1000000000 \div FREQ)
LatchTicks == (LatchMicros * 1000) \div ByteNanos

(***************************************************************************)
(* 32-bit words as four bytes, most significant first.                     *)
(***************************************************************************)
Byte == 0..255
ZeroWord == <<0, 0, 0, 0>>

\* u32::from(x) for a u8
FromU8(x) == <<0, 0, 0, x>>

\* w << n for n a multiple of 8, bits shifted past bit 31 are lost
Shl(w, n) ==
    LET k == n \div 8
    IN  [i \in 1..4 |-> IF i + k <= 4 THEN w[i + k] ELSE 0]

RECURSIVE OrBits(_, _, _)
\* bitwise or of two naturals below 2^n
OrBits(a, b, n) ==
    IF n = 0 THEN 0
    ELSE IF a = 0 THEN b
    ELSE IF b = 0 THEN a
    ELSE (IF (a % 2 = 1) \/ (b % 2 = 1) THEN 1 ELSE 0)
         + 2 * OrBits(a \div 2, b \div 2, n - 1)

\* a | b on words
BitOr(a, b) == [i \in 1..4 |-> OrBits(a[i], b[i], 8)]


(***************************************************************************)
(* Colours and ColorFormat::to_word.                                       *)
(***************************************************************************)
Rgbw(r, g, b, w) == [r |-> r, g |-> g, b |-> b, w |-> w]

\* an encoder that packs in R, G, B order
to_word_rgb8_rgb(c) ==
    BitOr(BitOr(Shl(FromU8(c.r), 24), Shl(FromU8(c.g), 16)), Shl(FromU8(c.b), 8))

\* impl ColorFormat for RGB8
to_word_rgb8(c) ==
    BitOr(BitOr(Shl(FromU8(c.g), 24), Shl(FromU8(c.r), 16)), Shl(FromU8(c.b), 8))

\* impl ColorFormat for RGBW<u8, u8>
to_word_rgbw(c) ==
    BitOr(BitOr(BitOr(Shl(FromU8(c.g), 24), Shl(FromU8(c.r), 16)),
                Shl(FromU8(c.b), 8)),
          FromU8(c.w))

to_word(c, f) == IF f = "RGB8" THEN to_word_rgb8(c) ELSE to_word_rgbw(c)

\* the colours the callers of write hand in
Palette == {Rgbw(255, 0, 255, 127), Rgbw(1, 2, 3, 4)}

\* the state machine before its first cycle: pin low, nothing shifted
PioReset ==
    /\ pioPc = 0
    /\ delay = 0
    /\ regX = 0
    /\ line = 0
    /\ cell = <<>>
    /\ wire = <<>>
    /\ osrColor = Rgbw(0, 0, 0, 0)

(***************************************************************************)
(* The peripheral: TX FIFO, output shift register with autopull, TXSTALL.  *)
(***************************************************************************)
\* autopull: the shift counter reached pull_threshold
Exhausted == osrCount >= num_bits(format)

\* a Tx::write that takes a word whatever the FIFO's level
TxHasRoomAlways(f) == TRUE
\* a Tx::write that puts the word in front of the queued ones
TxPushFront(f, w) == <<w>> \o f

\* Tx::write: the word is taken when the FIFO is not full
TxHasRoom(f) == Len(f) < FifoDepth
TxPush(f, w) == Append(f, w)

\* Tx::is_empty
TxIsEmpty(f) == f = <<>>

\* `out` with an exhausted shift register and a word in the FIFO: autopull
SmPull ==
    /\ running
    /\ Exhausted
    /\ fifo # <<>>
    /\ osr' = Head(fifo)
    /\ osrCount' = 0
    /\ fifo' = Tail(fifo)
    /\ pending' = Tail(pending)
    /\ smStalled' = FALSE
    /\ sinceStall' = 0
    /\ UNCHANGED <<txstall, cdLeft>>
    /\ UNCHANGED cfgVars
    /\ UNCHANGED hostVars
    /\ UNCHANGED pioVars

\* `out` with an exhausted shift register and an empty FIFO: the state machine
\* stalls and the peripheral raises TXSTALL (again, while it stays stalled)
SmStall ==
    /\ running
    /\ Exhausted
    /\ fifo = <<>>
    /\ ~(smStalled /\ txstall)
    /\ smStalled' = TRUE
    /\ txstall' = TRUE
    /\ sinceStall' = (IF smStalled THEN sinceStall ELSE 0)
    /\ UNCHANGED <<fifo, osr, osrCount, cdLeft, pending>>
    /\ UNCHANGED cfgVars
    /\ UNCHANGED hostVars
    /\ UNCHANGED pioVars

\* One byte time passes: the state machine shifts 8 bits out (wrap_target ..
\* wrap_source, 8 times), the countdown runs down. The state machine reacts to
\* an exhausted shift register within one of its cycles, long before the tick.
Tick ==
    /\ running
    /\ \/ ~Exhausted
       \/ fifo = <<>> /\ smStalled /\ txstall
    /\ IF Exhausted
         THEN UNCHANGED <<osr, osrCount>>
         ELSE /\ osr' = Shl(osr, 8)
              /\ osrCount' = osrCount + 8
    /\ sinceStall' = (IF smStalled /\ sinceStall < LatchTicks THEN sinceStall + 1
                    ELSE IF smStalled THEN sinceStall ELSE 0)
    /\ cdLeft' = (IF cdLeft > 0 THEN cdLeft - 1 ELSE 0)
    /\ UNCHANGED <<fifo, smStalled, txstall, pending>>
    /\ UNCHANGED cfgVars
    /\ UNCHANGED hostVars
    /\ UNCHANGED pioVars

(***************************************************************************)
(* The calling thread: Ws2812::write (gated) and Ws2812Direct::write.      *)
(***************************************************************************)
Idle == pc \in {"idle", "ret"}

\* a call of write with a sequence of n colours
WriteCall(n) ==
    /\ Idle
    /\ pc' = (IF gated THEN "clear" ELSE "loop")
    /\ remaining' = n
    /\ callLen' = n
    /\ accepted' = 0
    /\ result' = "none"
    /\ writes' = (IF writes < 2 THEN writes + 1 ELSE writes)
    /\ UNCHANGED <<color, cur, cdLeft, pending>>
    /\ UNCHANGED cfgVars
    /\ UNCHANGED smVars
    /\ UNCHANGED pioVars

\* a clear that also empties the queue
ClearStalledFlagAndFifo ==
    /\ pc = "clear"
    /\ txstall' = FALSE
    /\ fifo' = <<>>
    /\ pending' = <<>>
    /\ pc' = "spin"
    /\ UNCHANGED <<osr, osrCount, smStalled, sinceStall, cdLeft>>
    /\ UNCHANGED <<remaining, color, cur, result, callLen, accepted, writes>>
    /\ UNCHANGED cfgVars
    /\ UNCHANGED pioVars

\* self.driver.tx.clear_stalled_flag()
ClearStalledFlag ==
    /\ pc = "clear"
    /\ txstall' = FALSE
    /\ pc' = "spin"
    /\ UNCHANGED <<fifo, osr, osrCount, smStalled, sinceStall, cdLeft, pending>>
    /\ UNCHANGED <<remaining, color, cur, result, callLen, accepted, writes>>
    /\ UNCHANGED cfgVars
    /\ UNCHANGED pioVars

\* the left operand with its negation lost: spins while the queue is empty
SpinIsEmptyInverted ==
    /\ pc = "spin"
    /\ pc' = (IF TxIsEmpty(fifo) THEN "spin2" ELSE "cdstart")
    /\ UNCHANGED <<remaining, color, cur, result, callLen, accepted, writes>>
    /\ UNCHANGED <<cdLeft, pending>>
    /\ UNCHANGED cfgVars
    /\ UNCHANGED smVars
    /\ UNCHANGED pioVars

\* while !is_empty() && ... : the left operand
SpinIsEmpty ==
    /\ pc = "spin"
    /\ pc' = (IF ~TxIsEmpty(fifo) THEN "spin2" ELSE "cdstart")
    /\ UNCHANGED <<remaining, color, cur, result, callLen, accepted, writes>>
    /\ UNCHANGED <<cdLeft, pending>>
    /\ UNCHANGED cfgVars
    /\ UNCHANGED smVars
    /\ UNCHANGED pioVars

\* ... && !has_stalled() {} : the right operand, read after the left one
SpinHasStalled ==
    /\ pc = "spin2"
    /\ pc' = (IF ~txstall THEN "spin" ELSE "cdstart")
    /\ UNCHANGED <<remaining, color, cur, result, callLen, accepted, writes>>
    /\ UNCHANGED <<cdLeft, pending>>
    /\ UNCHANGED cfgVars
    /\ UNCHANGED smVars
    /\ UNCHANGED pioVars

\* self.cd.start(60u32.micros())
CdStart ==
    /\ pc = "cdstart"
    /\ cdLeft' = LatchTicks
    /\ pc' = "cdwait"
    /\ UNCHANGED <<remaining, color, cur, result, callLen, accepted, writes>>
    /\ UNCHANGED pending
    /\ UNCHANGED cfgVars
    /\ UNCHANGED smVars
    /\ UNCHANGED pioVars

\* a wait that returns at once, whatever the countdown says
CdWaitNoBlock ==
    /\ pc = "cdwait"
    /\ pc' = "loop"
    /\ UNCHANGED <<remaining, color, cur, result, callLen, accepted, writes>>
    /\ UNCHANGED <<cdLeft, pending>>
    /\ UNCHANGED cfgVars
    /\ UNCHANGED smVars
    /\ UNCHANGED pioVars

\* nb::block!(self.cd.wait()): leaves the loop once the countdown expired
CdWait ==
    /\ pc = "cdwait"
    /\ cdLeft = 0
    /\ pc' = "loop"
    /\ UNCHANGED <<remaining, color, cur, result, callLen, accepted, writes>>
    /\ UNCHANGED <<cdLeft, pending>>
    /\ UNCHANGED cfgVars
    /\ UNCHANGED smVars
    /\ UNCHANGED pioVars

\* for item in iterator { let color = item.into(); let word = color.to_word();
LoopNext(c) ==
    /\ pc = "loop"
    /\ remaining > 0
    /\ cur' = to_word(c, format)
    /\ pending' = Append(pending, c)
    /\ remaining' = remaining - 1
    /\ pc' = "push"
    /\ UNCHANGED <<color, result, callLen, accepted, writes>>
    /\ UNCHANGED cdLeft
    /\ UNCHANGED cfgVars
    /\ UNCHANGED smVars
    /\ UNCHANGED pioVars

\* a push loop that gives up on a full FIFO and goes on with the next colour
TxWriteDrop ==
    /\ pc = "push"
    /\ IF TxHasRoom(fifo)
         THEN /\ fifo' = TxPush(fifo, cur)
              /\ accepted' = accepted + 1
              /\ UNCHANGED pending
         ELSE /\ pending' = SubSeq(pending, 1, Len(pending) - 1)
              /\ UNCHANGED <<fifo, accepted>>
    /\ pc' = "loop"
    /\ UNCHANGED <<osr, osrCount, smStalled, txstall, sinceStall, cdLeft>>
    /\ UNCHANGED <<remaining, color, cur, result, callLen, writes>>
    /\ UNCHANGED cfgVars
    /\ UNCHANGED pioVars

\* while !self.tx.write(word)
TxWrite ==
    /\ pc = "push"
    /\ IF TxHasRoom(fifo)
         THEN /\ fifo' = TxPush(fifo, cur)
              /\ accepted' = accepted + 1
              /\ pc' = "loop"
         ELSE /\ pc' = "nop"
              /\ UNCHANGED <<fifo, accepted>>
    /\ UNCHANGED <<osr, osrCount, smStalled, txstall, sinceStall, cdLeft, pending>>
    /\ UNCHANGED <<remaining, color, cur, result, callLen, writes>>
    /\ UNCHANGED cfgVars
    /\ UNCHANGED pioVars

\* a retry loop that never calls tx.write again
NopForever ==
    /\ pc = "nop"
    /\ UNCHANGED vars

\* cortex_m::asm::nop()
Nop ==
    /\ pc = "nop"
    /\ pc' = "push"
    /\ UNCHANGED <<remaining, color, cur, result, callLen, accepted, writes>>
    /\ UNCHANGED <<cdLeft, pending>>
    /\ UNCHANGED cfgVars
    /\ UNCHANGED smVars
    /\ UNCHANGED pioVars

\* the iterator is exhausted: Ok(())
Return ==
    /\ pc = "loop"
    /\ remaining = 0
    /\ pc' = "ret"
    /\ result' = "Ok"
    /\ UNCHANGED <<remaining, color, cur, callLen, accepted, writes>>
    /\ UNCHANGED <<cdLeft, pending>>
    /\ UNCHANGED cfgVars
    /\ UNCHANGED smVars
    /\ UNCHANGED pioVars

(***************************************************************************)
(* Spec: a constructed driver, its state machine started by new_generic.   *)
(***************************************************************************)
Init ==
    /\ format \in Formats
    /\ gated \in BOOLEAN
    /\ clock = 125000000
    /\ npc = "done"
    /\ installed = TRUE
    /\ divisor = <<15, 160>>
    /\ clkdiv = <<15, 160>>
    /\ shiftcfg = <<"Left", TRUE, num_bits(format)>>
    /\ pindir = "output"
    /\ running = TRUE
    /\ fifo = <<>>
    /\ osr = ZeroWord
    /\ osrCount = 32
    /\ smStalled = FALSE
    /\ txstall = FALSE
    /\ sinceStall = 0
    /\ cdLeft = 0
    /\ pc = "idle"
    /\ remaining = 0
    /\ color = Rgbw(0, 0, 0, 0)
    /\ cur = ZeroWord
    /\ result = "none"
    /\ callLen = 0
    /\ accepted = 0
    /\ pending = <<>>
    /\ writes = 0
    /\ PioReset

Next ==
    \/ \E n \in 0..MaxLen : WriteCall(n)
    \/ ClearStalledFlag
    \/ SpinIsEmpty
    \/ SpinHasStalled
    \/ CdStart
    \/ CdWait
    \/ \E c \in Palette : LoopNext(c)
    \/ TxWrite
    \/ Nop
    \/ Return
    \/ SmPull
    \/ SmStall
    \/ Tick

Spec == Init /\ [][Next]_vars

(***************************************************************************)
(* LiveSpec: the same driver with the fairness its environment gives: the  *)
(* state machine and the timer are clocked hardware (time passes, a pull   *)
(* or a stall that is due happens), and the calling thread keeps executing *)
(* the write it is in. No control decision of write reads a word's value,  *)
(* so every colour handed in is the same one.                              *)
(***************************************************************************)
LivePalette == {Rgbw(255, 0, 255, 127)}

\* the next statement of the write in progress
HostStep ==
    \/ ClearStalledFlag
    \/ SpinIsEmpty
    \/ SpinHasStalled
    \/ CdStart
    \/ CdWait
    \/ \E c \in LivePalette : LoopNext(c)
    \/ TxWrite
    \/ Nop
    \/ Return

LiveNext ==
    \/ \E n \in 0..MaxLen : WriteCall(n)
    \/ HostStep
    \/ SmPull
    \/ SmStall
    \/ Tick

LiveSpec ==
    /\ Init
    /\ [][LiveNext]_vars
    /\ WF_vars(HostStep)
    /\ WF_vars(SmPull)
    /\ WF_vars(SmStall)
    /\ WF_vars(Tick)


(***************************************************************************)
(* Claims about the write path, checked under Spec.                        *)
(***************************************************************************)
\* the words of the colours in flight, oldest first
Words(cs) == [i \in 1..Len(cs) |-> to_word(cs[i], format)]
\* the word the push loop holds and has not yet queued
InHand == IF pc \in {"push", "nop"} THEN <<cur>> ELSE <<>>
\* the first tx.write of a gated write that is not the driver's first is about to be taken
FirstPushOfLaterWrite ==
    gated /\ writes = 2 /\ pc = "push" /\ accepted = 0 /\ TxHasRoom(fifo)

\* C1: in a gated driver, the first queue push of every write after the first
\* happens at least 60 us after the state machine last stalled on an empty queue.
C1_LatchGap ==
    FirstPushOfLaterWrite => (smStalled /\ sinceStall >= LatchTicks)

\* C2: the queue holds the words of the input colours in input order, call after
\* call, also while a word is retried, and the state machine pulls them oldest first.
C2_OrderInv == Words(pending) = fifo \o InHand
C2_PullsOldest ==
    Len(pending') < Len(pending) =>
        /\ osr' = to_word(Head(pending), format)
        /\ pending' = Tail(pending)
C2_WordOrder == [](C2_OrderInv) /\ [][C2_PullsOldest]_vars
C2_Witness ==
    /\ pc = "nop"
    /\ ~TxHasRoom(fifo)
    /\ fifo[1] # fifo[2]
    /\ ~Exhausted
    /\ writes = 2

\* C3: a push attempt on a full queue changes nothing and the same word is
\* retried; the occupancy never exceeds the capacity; at return every colour of
\* the input was queued exactly once.
C3_StateInv ==
    /\ Len(fifo) <= FifoDepth
    /\ Len(pending) = Len(fifo) + Len(InHand)
    /\ (pc = "ret" => accepted = callLen /\ remaining = 0)
C3_FullPushStep ==
    /\ (pc = "push" /\ ~TxHasRoom(fifo) /\ pc' # pc) =>
           /\ pc' = "nop"
           /\ fifo' = fifo
           /\ cur' = cur
           /\ accepted' = accepted
           /\ remaining' = remaining
    /\ (pc = "nop" /\ pc' # pc) => (pc' = "push" /\ cur' = cur)
    /\ (pc = "push" /\ pc' = "loop") =>
           (fifo' = Append(fifo, cur) /\ accepted' = accepted + 1)
C3_BackPressure == [](C3_StateInv) /\ [][C3_FullPushStep]_vars
C3_Witness == pc = "nop" /\ TxHasRoom(fifo) /\ accepted < callLen

C9_ReturnsWhenTransmitted ==
    pc = "ret" => (TxIsEmpty(fifo) /\ Exhausted)

\* C7: every write call, plain or gated, eventually returns, and returns Ok,
\* given that the state machine keeps running and the countdown runs down.
C7_WriteReturns ==
    /\ (~Idle) ~> (pc = "ret" /\ result = "Ok")
    /\ [](pc = "ret" => result = "Ok")
C7_Witness ==
    /\ gated
    /\ pc = "ret"
    /\ result = "Ok"
    /\ callLen = MaxLen
    /\ writes = 2

\* C10: the gated write starts its countdown only when the state machine has run
\* dry: the queue is empty and no word is still being shifted out.
C10_CountdownOnlyWhenDry ==
    pc = "cdstart" => (TxIsEmpty(fifo) /\ Exhausted)


(***************************************************************************)
(* SpecWord: ColorFormat::to_word on its own. Every value of one channel   *)
(* is tried against the extreme values of the other three.                 *)
(***************************************************************************)
Edge == {0, 255}
WordColors ==
    {Rgbw(r, g, b, w) : r \in Byte, g \in Edge, b \in Edge, w \in Edge}
    \cup {Rgbw(r, g, b, w) : r \in Edge, g \in Byte, b \in Edge, w \in Edge}
    \cup {Rgbw(r, g, b, w) : r \in Edge, g \in Edge, b \in Byte, w \in Edge}
    \cup {Rgbw(r, g, b, w) : r \in Edge, g \in Edge, b \in Edge, w \in Byte}
    \cup {Rgbw(255, 0, 255, 127), Rgbw(1, 2, 3, 4)}

\* the state of a driver before new_generic ran
Unbuilt ==
    /\ installed = FALSE
    /\ divisor = <<>>
    /\ clkdiv = <<>>
    /\ shiftcfg = <<>>
    /\ pindir = "unset"
    /\ running = FALSE
    /\ fifo = <<>>
    /\ osr = ZeroWord
    /\ osrCount = 32
    /\ smStalled = FALSE
    /\ txstall = FALSE
    /\ sinceStall = 0
    /\ cdLeft = 0
    /\ remaining = 0
    /\ result = "none"
    /\ callLen = 0
    /\ accepted = 0
    /\ pending = <<>>
    /\ writes = 0
    /\ PioReset

WordInit ==
    /\ format \in Formats
    /\ gated = FALSE
    /\ clock = 125000000
    /\ npc = "none"
    /\ Unbuilt
    /\ pc = "color"
    /\ color \in WordColors
    /\ cur = ZeroWord

\* let word = color.to_word();
ToWord ==
    /\ pc = "color"
    /\ cur' = to_word(color, format)
    /\ pc' = "word"
    /\ UNCHANGED <<remaining, color, result, callLen, accepted, writes>>
    /\ UNCHANGED <<cdLeft, pending>>
    /\ UNCHANGED cfgVars
    /\ UNCHANGED smVars
    /\ UNCHANGED pioVars

WordNext == ToWord

SpecWord == WordInit /\ [][WordNext]_vars

\* bits 31..16 and bits 15..0 of a word, as numbers
Hi16(w) == w[1] * 256 + w[2]
Lo16(w) == w[3] * 256 + w[4]

\* C4: to_word puts G in bits 31..24, R in bits 23..16, B in bits 15..8 and, in
\* bits 7..0, W for the 4-byte format and 0 for the 3-byte format;
\* (r=255,g=0,b=255) gives 0x00FFFF00 and (r=255,g=0,b=255,w=127) gives 0x00FFFF7F.
C4_WordLayout ==
    pc = "word" =>
        /\ cur[1] = color.g
        /\ cur[2] = color.r
        /\ cur[3] = color.b
        /\ cur[4] = (IF format = "RGBW" THEN color.w ELSE 0)
        /\ (color = Rgbw(255, 0, 255, 127) =>
                /\ Hi16(cur) = 255
                /\ Lo16(cur) = (IF format = "RGBW" THEN 65407 ELSE 65280))
C4_Witness ==
    /\ pc = "word"
    /\ format = "RGBW"
    /\ color = Rgbw(255, 0, 255, 127)
    /\ cur = <<0, 255, 255, 127>>


(***************************************************************************)
(* SpecNew: Ws2812Direct::new_generic, one step per statement group.       *)
(* clock_freq is a u32; every product below stays under 2^31 for the       *)
(* sampled clocks (rem < bit_freq, so rem * 256 < 2 048 000 000).          *)
(***************************************************************************)
\* let mut int = clock_freq / bit_freq;
DivInt(clk) == clk \div bit_freq
\* let rem = clock_freq - (int * bit_freq);
DivRem(clk) == clk - DivInt(clk) * bit_freq
\* a fraction scaled by 255 instead of 256
DivFrac255(clk) == (DivRem(clk) * 255) \div bit_freq
\* let frac = (rem * 256) / bit_freq;
DivFrac(clk) == (DivRem(clk) * 256) \div bit_freq

\* a range check that lets an integer part of 0 through
DivisorValidFromZero(int, frac) ==
    (int \in 0..65536) /\ (int # 65536 \/ frac = 0)
\* assert!((1..=65536).contains(&int) && (int != 65536 || frac == 0), ...)
DivisorValid(int, frac) ==
    (int \in 1..65536) /\ (int # 65536 \/ frac = 0)

\* the integer part narrowed to 8 bits instead of 16
DivisorRegsU8(int, frac) ==
    <<(IF int = 65536 THEN 0 ELSE int) % 256, frac % 256>>
\* if int == 65536 { int = 0 }; int as u16; frac as u8
DivisorRegs(int, frac) ==
    <<(IF int = 65536 THEN 0 ELSE int) % 65536, frac % 256>>

ClockSamples ==
    {k * 1234567 : k \in 0..MaxClockK}
    \cup {0, 1, 7999999, 8000000, 8031249, 8031250, 15999999, 16000000,
          125000000, 133000000, 2047999999, 2147483647}

NewInit ==
    /\ format \in Formats
    /\ gated \in BOOLEAN
    /\ clock \in ClockSamples
    /\ npc = "install"
    /\ Unbuilt
    /\ pc = "new"
    /\ color = Rgbw(0, 0, 0, 0)
    /\ cur = ZeroWord

\* an install whose error is dropped instead of unwrapped
InstallUnchecked ==
    /\ npc = "install"
    /\ \E ok \in BOOLEAN :
         /\ installed' = ok
         /\ npc' = "divisor"
    /\ UNCHANGED <<format, gated, clock, divisor, clkdiv, shiftcfg, pindir, running>>
    /\ UNCHANGED <<cdLeft, pending>>
    /\ UNCHANGED smVars
    /\ UNCHANGED hostVars
    /\ UNCHANGED pioVars

\* let installed = pio.install(&program).unwrap();
Install ==
    /\ npc = "install"
    /\ \E ok \in BOOLEAN :
         /\ installed' = ok
         /\ npc' = (IF ok THEN "divisor" ELSE "panic_install")
    /\ UNCHANGED <<format, gated, clock, divisor, clkdiv, shiftcfg, pindir, running>>
    /\ UNCHANGED <<cdLeft, pending>>
    /\ UNCHANGED smVars
    /\ UNCHANGED hostVars
    /\ UNCHANGED pioVars

\* bit_freq, int, rem, frac, the assert and the narrowing casts
Divisor ==
    /\ npc = "divisor"
    /\ LET int == DivInt(clock)
           frac == DivFrac(clock)
       IN  IF DivisorValid(int, frac)
             THEN /\ divisor' = DivisorRegs(int, frac)
                  /\ npc' = "build"
             ELSE /\ npc' = "panic_divisor"
                  /\ UNCHANGED divisor
    /\ UNCHANGED <<format, gated, clock, installed, clkdiv, shiftcfg, pindir, running>>
    /\ UNCHANGED <<cdLeft, pending>>
    /\ UNCHANGED smVars
    /\ UNCHANGED hostVars
    /\ UNCHANGED pioVars

\* a build followed by start, the set_pindirs call left out
BuildSkipPindirs ==
    /\ npc = "build"
    /\ shiftcfg' = <<"Left", TRUE, num_bits(format)>>
    /\ clkdiv' = divisor
    /\ npc' = "start"
    /\ UNCHANGED <<format, gated, clock, installed, divisor, pindir, running>>
    /\ UNCHANGED <<cdLeft, pending>>
    /\ UNCHANGED smVars
    /\ UNCHANGED hostVars
    /\ UNCHANGED pioVars

\* PIOBuilder::from_installed_program(installed) ... .build(sm)
Build ==
    /\ npc = "build"
    /\ shiftcfg' = <<"Left", TRUE, num_bits(format)>>
    /\ clkdiv' = divisor
    /\ npc' = "pindirs"
    /\ UNCHANGED <<format, gated, clock, installed, divisor, pindir, running>>
    /\ UNCHANGED <<cdLeft, pending>>
    /\ UNCHANGED smVars
    /\ UNCHANGED hostVars
    /\ UNCHANGED pioVars

\* sm.set_pindirs([(pin.id().num, PinDir::Output)]);
SetPindirs ==
    /\ npc = "pindirs"
    /\ pindir' = "output"
    /\ npc' = "start"
    /\ UNCHANGED <<format, gated, clock, installed, divisor, clkdiv, shiftcfg, running>>
    /\ UNCHANGED <<cdLeft, pending>>
    /\ UNCHANGED smVars
    /\ UNCHANGED hostVars
    /\ UNCHANGED pioVars

\* sm.start(); Self { tx, .. }
Start ==
    /\ npc = "start"
    /\ running' = TRUE
    /\ npc' = "done"
    /\ pc' = "idle"
    /\ UNCHANGED <<format, gated, clock, installed, divisor, clkdiv, shiftcfg, pindir>>
    /\ UNCHANGED <<remaining, color, cur, result, callLen, accepted, writes>>
    /\ UNCHANGED <<cdLeft, pending>>
    /\ UNCHANGED smVars
    /\ UNCHANGED pioVars

NewNext ==
    \/ Install
    \/ Divisor
    \/ Build
    \/ SetPindirs
    \/ Start

SpecNew == NewInit /\ [][NewNext]_vars

\* the divisor step of new_generic has run and its assert held
DivisorPassed == npc \in {"build", "pindirs", "start", "done"}

\* C5: for every accepted clock the divisor is int_part = floor(clock / 8 000 000)
\* and frac_part = floor((clock - int_part * 8 000 000) * 256 / 8 000 000);
\* 125 000 000 Hz gives 15 and 160.
C5_DivisorValue ==
    DivisorPassed =>
        LET int == divisor[1]
            frac == divisor[2]
            rem == clock - int * 8000000
        IN  /\ bit_freq = 800000 * 10
            /\ rem >= 0 /\ rem < 8000000
            /\ frac * 8000000 <= rem * 256
            /\ rem * 256 - frac * 8000000 < 8000000
            /\ (clock = 125000000 => divisor = <<15, 160>>)
            /\ (npc \in {"pindirs", "start", "done"} => clkdiv = divisor)
C5_Witness == npc = "done" /\ clock = 125000000 /\ clkdiv = <<15, 160>>

\* C6: construction fails on the divisor exactly when the integer part is
\* outside [1, 65536] or is 65536 with a non-zero fraction; every clock below
\* 8 MHz is rejected and every clock with integer part in [1, 65535] is accepted.
C6_DivisorRejection ==
    (DivisorPassed \/ npc = "panic_divisor") =>
        LET q == clock \div 8000000
            f == ((clock % 8000000) * 256) \div 8000000
        IN  /\ (npc = "panic_divisor") <=>
                   (q < 1 \/ q > 65536 \/ (q = 65536 /\ f # 0))
            /\ (clock < 8000000 => npc = "panic_divisor")
            /\ (q \in 1..65535 => DivisorPassed)
C6_Witness == npc = "panic_divisor" /\ clock = 7999999 /\ installed /\ ~running

(***************************************************************************)
(* The gated write, step by step.                                          *)
(***************************************************************************)

\* the positions of a gated call that come before its first push
BeforeLoop == {"clear", "spin", "spin2", "cdstart", "cdwait"}

\* C11: in every gated write call, the first and the empty ones included, the
\* steps come in the order clear stall flag, spin, start the 60 us countdown,
\* expiry, pushes: the call enters its push loop only from the wait on the
\* countdown it started itself, only once that countdown has expired, and it
\* queues no word before.
C11_GateStep ==
    gated =>
        /\ (pc' = "clear" /\ pc # "clear" => pc \in {"idle", "ret"})
        /\ (pc' = "spin" /\ pc # "spin" =>
               \/ pc = "clear" /\ ~txstall'
               \/ pc = "spin2")
        /\ (pc' = "spin2" /\ pc # "spin2" => pc = "spin")
        /\ (pc' = "cdstart" /\ pc # "cdstart" => pc \in {"spin", "spin2"})
        /\ (pc' = "cdwait" /\ pc # "cdwait" =>
               pc = "cdstart" /\ cdLeft' = LatchTicks /\ LatchTicks * ByteNanos = 60000)
        /\ (pc' = "cdwait" /\ pc = "cdwait" => cdLeft' <= cdLeft)
        /\ (pc' \in {"loop", "push", "nop", "ret"} /\ pc \in BeforeLoop =>
               pc = "cdwait" /\ pc' = "loop" /\ cdLeft = 0)
        /\ (pc' \in {"loop", "push", "nop"} /\ pc \notin {"loop", "push", "nop"} =>
               pc = "cdwait")
        /\ (Len(fifo') > Len(fifo) => pc \in {"push"} /\ cdLeft = 0)
        /\ (pc' \in BeforeLoop => accepted' = 0 /\ Len(pending') <= Len(pending))
C11_GateOrder == [][C11_GateStep]_vars
C11_Witness ==
    gated /\ writes = 1 /\ pc = "loop" /\ accepted = 1 /\ cdLeft = 0 /\ Len(fifo) = 1

\* the first write call of a driver, made with an empty colour sequence
FirstEmptyWrite == writes = 1 /\ callLen = 0

\* C12 as stated: the first write of either driver, given an empty sequence,
\* queues nothing, leaves the queue unchanged and returns success without
\* blocking: no spin on the queue and no timed wait.
C12_EmptyWriteNeverBlocks ==
    FirstEmptyWrite =>
        /\ fifo = <<>> /\ accepted = 0
        /\ pc \notin {"spin2", "nop"}
        /\ ~(pc = "cdwait" /\ cdLeft > 0)
        /\ (pc = "ret" => result = "Ok")

\* C12, amended: the first write of either driver, given an empty sequence,
\* queues nothing, leaves the queue unchanged and returns success; it never
\* spins on the queue; the plain driver does not block at all, the gated one
\* blocks for its 60 us countdown and for nothing else.
C12_EmptyWrite ==
    FirstEmptyWrite =>
        /\ fifo = <<>> /\ pending = <<>> /\ accepted = 0
        /\ pc \notin {"spin2", "push", "nop"}
        /\ (pc = "ret" => result = "Ok")
        /\ (~gated => pc \in {"loop", "ret"} /\ cdLeft = 0)
        /\ (gated => cdLeft <= LatchTicks /\ (pc \in {"clear", "spin", "cdstart"} => cdLeft = 0))
C12_Witness ==
    FirstEmptyWrite /\ gated /\ pc = "ret" /\ result = "Ok" /\ fifo = <<>>

(***************************************************************************)
(* Construction: outcome, register values, order of the steps.             *)
(***************************************************************************)

Panicked == npc \in {"panic_install", "panic_divisor"}

\* C13: construction is all-or-nothing.  After a failed install or a rejected
\* divisor there is no driver value, the state machine is not started, the
\* pin direction is not set and no further step runs; a construction that
\* returns has installed the program, configured the divisor and started
\* the state machine.
C13_AllOrNothing ==
    /\ (Panicked =>
           /\ pc = "new" /\ ~running /\ pindir = "unset"
           /\ clkdiv = <<>> /\ shiftcfg = <<>>
           /\ ~ENABLED NewNext)
    /\ (~installed /\ npc # "install" => npc = "panic_install")
    /\ (clock < 8000000 => pc = "new" /\ ~running /\ pindir = "unset")
    /\ (pc = "idle" <=> npc = "done")
    /\ (running <=> npc = "done")
    /\ (npc = "done" =>
           /\ installed
           /\ clock >= 8000000
           /\ clkdiv = <<clock \div 8000000, ((clock % 8000000) * 256) \div 8000000>>)
C13_Witness ==
    npc = "panic_install" /\ ~installed /\ ~running /\ pindir = "unset" /\ pc = "new"

\* C14: every divisor written has its fraction in [0,255] and its integer
\* part in [0,65535], 0 standing only for a computed 65536 with fraction 0;
\* remainder*256 stays below 2^32 and the narrowing to 16 and 8 bits keeps
\* the computed values.
C14_DivisorRegisters ==
    clkdiv # <<>> =>
        LET int == clock \div 8000000
            rem == clock % 8000000
            frac == (rem * 256) \div 8000000
        IN  /\ clkdiv[1] \in 0..65535 /\ clkdiv[2] \in 0..255
            /\ (clkdiv[1] = 0 => int = 65536 /\ frac = 0)
            /\ (rem * 256) \div 65536 < 65536
            /\ (int # 65536 => clkdiv[1] = int)
            /\ clkdiv[2] = frac
C14_Witness ==
    npc = "done" /\ clock = 2147483647 /\ clkdiv[1] = 268 /\ clkdiv[2] > 0

\* C18: the state machine is started only after the program is installed,
\* the divisor has passed its check and is written, the shift configuration
\* (left shift, autopull, pull threshold) is applied and the pin direction
\* is output; every step runs exactly once and start is the last one.
C18_StartStep ==
    /\ (running' /\ ~running =>
           /\ installed
           /\ clock \div 8000000 \in 1..65535
           /\ clkdiv = divisor /\ clkdiv # <<>>
           /\ shiftcfg = <<"Left", TRUE, IF format = "RGB8" THEN 24 ELSE 32>>
           /\ pindir = "output")
    /\ (installed => installed' /\ npc # "install")
    /\ (divisor # <<>> => divisor' = divisor)
    /\ (clkdiv # <<>> => clkdiv' = clkdiv /\ shiftcfg' = shiftcfg /\ shiftcfg # <<>>)
    /\ (pindir = "output" => pindir' = "output" /\ npc \in {"start", "done"})
    /\ (running => UNCHANGED vars)
C18_StartIsLast == [][C18_StartStep]_vars
C18_Witness ==
    running /\ npc = "done" /\ installed /\ pindir = "output" /\ format = "RGBW"
    /\ shiftcfg = <<"Left", TRUE, 32>> /\ clkdiv = <<15, 160>>

(***************************************************************************)
(* What a write call may touch.                                            *)
(***************************************************************************)

\* C19: no step of a write call, plain or gated, changes the installed
\* program, the clock divisor, the shift configuration, the pin direction or
\* the running state; a step of a plain write changes nothing of the
\* peripheral but the queue, to which it appends the word in hand; a step
\* of a gated write may besides only clear the stall flag and start the
\* countdown.
C19_WriteStep ==
    /\ UNCHANGED <<format, gated, clock, installed, divisor, clkdiv, shiftcfg, pindir, running>>
    /\ (pc' # pc =>
           /\ UNCHANGED <<osr, osrCount, smStalled, sinceStall>>
           /\ \/ fifo' = fifo
              \/ pc = "push" /\ fifo' = fifo \o <<cur>> /\ Len(fifo') <= 8
           /\ (txstall' # txstall => gated /\ pc = "clear" /\ ~txstall')
           /\ (cdLeft' # cdLeft => gated /\ pc = "cdstart" /\ cdLeft' = LatchTicks)
           /\ (~gated => txstall' = txstall /\ cdLeft' = cdLeft))
C19_WriteFrame == [][C19_WriteStep]_vars
C19_Witness ==
    /\ gated /\ writes = 2 /\ pc = "ret" /\ callLen = MaxLen
    /\ installed /\ running /\ pindir = "output"
    /\ clkdiv = <<15, 160>> /\ shiftcfg = <<"Left", TRUE, IF format = "RGB8" THEN 24 ELSE 32>>

(***************************************************************************)
(* The PIO program, one state-machine cycle per step.                      *)
(***************************************************************************)

MaxPioWords == 3

\* a.bind(&mut wrap_target), a.bind(&mut do_zero), a.bind(&mut wrap_source):
\* the offsets the three labels are bound to
wrap_target == 0
do_zero == 3
wrap_source == 4

\* the data-one jump given a delay of T2 instead of T2 - 1
ProgramLongOne ==
    <<[op |-> "out", delay |-> T3 - 1, side |-> 0, target |-> wrap_target],
      [op |-> "jmp_x_is_zero", delay |-> T1 - 1, side |-> 1, target |-> do_zero],
      [op |-> "jmp_always", delay |-> T2, side |-> 1, target |-> wrap_target],
      [op |-> "nop", delay |-> T2 - 1, side |-> 0, target |-> wrap_target]>>
\* the `out` given a side-set of 1: the pin stays high while it stalls
ProgramIdleHigh ==
    <<[op |-> "out", delay |-> T3 - 1, side |-> 1, target |-> wrap_target],
      [op |-> "jmp_x_is_zero", delay |-> T1 - 1, side |-> 1, target |-> do_zero],
      [op |-> "jmp_always", delay |-> T2 - 1, side |-> 1, target |-> wrap_target],
      [op |-> "nop", delay |-> T2 - 1, side |-> 0, target |-> wrap_target]>>
\* the four instructions with their delay and side-set operands
Program ==
    <<[op |-> "out", delay |-> T3 - 1, side |-> 0, target |-> wrap_target],
      [op |-> "jmp_x_is_zero", delay |-> T1 - 1, side |-> 1, target |-> do_zero],
      [op |-> "jmp_always", delay |-> T2 - 1, side |-> 1, target |-> wrap_target],
      [op |-> "nop", delay |-> T2 - 1, side |-> 0, target |-> wrap_target]>>

Instr == Program[pioPc + 1]

\* assemble_with_wrap(wrap_source, wrap_target): the instruction before
\* wrap_source is followed by the one at wrap_target
NextPc(p) == IF p + 1 = wrap_source THEN wrap_target ELSE p + 1

\* out_shift_direction(Left): the bit that leaves first, and what is left
Msb(w) == w[1] \div 128
Shl1(w) == [i \in 1..4 |-> ((w[i] * 2) % 256) + (IF i < 4 THEN w[i + 1] \div 128 ELSE 0)]

\* autopull(true) on a cycle that executes no `out`: an exhausted shift
\* register is refilled from the FIFO as soon as a word is there
Autopull ==
    IF Exhausted /\ fifo # <<>>
      THEN /\ osr' = Head(fifo)
           /\ osrCount' = 0
           /\ fifo' = Tail(fifo)
           /\ pending' = Tail(pending)
           /\ osrColor' = Head(pending)
           /\ wire' = <<>>
      ELSE UNCHANGED <<fifo, osr, osrCount, pending, osrColor, wire>>

\* a delay cycle of the instruction executed last
PioDelay ==
    /\ running
    /\ delay > 0
    /\ delay' = delay - 1
    /\ cell' = Append(cell, line)
    /\ Autopull
    /\ UNCHANGED <<pioPc, regX, line, smStalled, txstall>>
    /\ UNCHANGED <<sinceStall, cdLeft>>
    /\ UNCHANGED cfgVars
    /\ UNCHANGED hostVars

\* out x, 1 side 0 [T3 - 1], the shift register holding bits: X takes the
\* top bit, the word moves left by one
PioOut ==
    /\ running
    /\ delay = 0
    /\ Instr.op = "out"
    /\ ~Exhausted
    /\ regX' = Msb(osr)
    /\ osr' = Shl1(osr)
    /\ osrCount' = osrCount + 1
    /\ wire' = Append(wire, Msb(osr))
    /\ line' = Instr.side
    /\ delay' = Instr.delay
    /\ pioPc' = NextPc(pioPc)
    /\ cell' = <<Instr.side>>
    /\ smStalled' = FALSE
    /\ UNCHANGED <<fifo, pending, osrColor, txstall>>
    /\ UNCHANGED <<sinceStall, cdLeft>>
    /\ UNCHANGED cfgVars
    /\ UNCHANGED hostVars

\* out with the shift register exhausted: the instruction stalls, its
\* side-set still drives the pin; a queued word refills the register for the
\* next cycle, an empty queue raises TXSTALL
PioOutStall ==
    /\ running
    /\ delay = 0
    /\ Instr.op = "out"
    /\ Exhausted
    /\ line' = Instr.side
    /\ Autopull
    /\ smStalled' = (fifo = <<>>)
    /\ txstall' = (txstall \/ fifo = <<>>)
    /\ UNCHANGED <<pioPc, delay, regX, cell>>
    /\ UNCHANGED <<sinceStall, cdLeft>>
    /\ UNCHANGED cfgVars
    /\ UNCHANGED hostVars

\* jmp !x do_zero side 1 [T1 - 1] and jmp wrap_target side 1 [T2 - 1]
PioJmp ==
    /\ running
    /\ delay = 0
    /\ Instr.op \in {"jmp_x_is_zero", "jmp_always"}
    /\ pioPc' = (IF Instr.op = "jmp_always" \/ regX = 0
                   THEN Instr.target ELSE NextPc(pioPc))
    /\ line' = Instr.side
    /\ delay' = Instr.delay
    /\ cell' = Append(cell, Instr.side)
    /\ Autopull
    /\ UNCHANGED <<regX, smStalled, txstall>>
    /\ UNCHANGED <<sinceStall, cdLeft>>
    /\ UNCHANGED cfgVars
    /\ UNCHANGED hostVars

\* do_zero: nop side 0 [T2 - 1]
PioNop ==
    /\ running
    /\ delay = 0
    /\ Instr.op = "nop"
    /\ pioPc' = NextPc(pioPc)
    /\ line' = Instr.side
    /\ delay' = Instr.delay
    /\ cell' = Append(cell, Instr.side)
    /\ Autopull
    /\ UNCHANGED <<regX, smStalled, txstall>>
    /\ UNCHANGED <<sinceStall, cdLeft>>
    /\ UNCHANGED cfgVars
    /\ UNCHANGED hostVars

\* the body of the write loop seen from the peripheral: the word of one
\* colour enters the FIFO when there is room
PioTxWrite(c) ==
    /\ accepted < MaxPioWords
    /\ TxHasRoom(fifo)
    /\ fifo' = TxPush(fifo, to_word(c, format))
    /\ pending' = Append(pending, c)
    /\ accepted' = accepted + 1
    /\ UNCHANGED <<pc, remaining, color, cur, result, callLen, writes>>
    /\ UNCHANGED <<osr, osrCount, smStalled, txstall, sinceStall, cdLeft>>
    /\ UNCHANGED cfgVars
    /\ UNCHANGED pioVars

PioNext ==
    \/ PioDelay
    \/ PioOut
    \/ PioOutStall
    \/ PioJmp
    \/ PioNop
    \/ \E c \in Palette : PioTxWrite(c)

SpecPio == Init /\ [][PioNext]_vars

\* the line levels of one bit cell: stop, start, data
CellPattern(b) == <<0, 0, 0, 1, 1, b, b, b, b, b>>

\* an `out` shifts a bit in this step
OutExecutes == osrCount' = osrCount + 1

\* C15: every bit shifted out occupies exactly 10 cycles: the line is low
\* for 3 cycles, high for 2, then high for 5 more when the bit is 1 and low
\* for 5 when it is 0; a bit starts only when the cell before it is
\* complete, and the state machine stalls only between words.
C15_CellShape ==
    /\ Len(cell) <= 10
    /\ \A i \in 1..Len(cell) : cell[i] = CellPattern(regX)[i]
    /\ (cell # <<>> => line = cell[Len(cell)] \/ (Len(cell) = 10 /\ line = 0))
    /\ (wire # <<>> => regX = wire[Len(wire)])
C15_CellStep ==
    /\ (OutExecutes => Len(cell) \in {0, 10} /\ Len(cell') = 1)
    /\ (Len(cell') = 10 /\ Len(cell) = 9 =>
           cell' = CellPattern(regX) /\ regX' = regX /\ delay' = 0)
    /\ (smStalled' /\ ~smStalled =>
           Len(cell) \in {0, 10} /\ osrCount >= (IF format = "RGB8" THEN 24 ELSE 32))
    /\ (Len(cell) = 10 /\ cell' = cell /\ Len(fifo') <= Len(fifo) /\ vars' # vars =>
           osrCount >= (IF format = "RGB8" THEN 24 ELSE 32))
C15_BitCell == []C15_CellShape /\ [][C15_CellStep]_vars
C15_Witness ==
    /\ cell = <<0, 0, 0, 1, 1, 1, 1, 1, 1, 1>>
    /\ osrCount = 7 /\ wire = <<0, 0, 0, 0, 0, 0, 1>>

Bits8(v) == [i \in 1..8 |-> (v \div (2 ^ (8 - i))) % 2]
\* the bits of a pixel in wire order: green, red, blue, then white
WireBits(c, f) ==
    Bits8(c.g) \o Bits8(c.r) \o Bits8(c.b) \o (IF f = "RGBW" THEN Bits8(c.w) ELSE <<>>)

\* C16: of every word taken from the queue exactly 24 (three-byte format)
\* or 32 (four-byte format) bits are put on the wire, most significant
\* first: G7..G0, R7..R0, B7..B0, then W7..W0 for the four-byte format
\* only; the low byte of a three-byte word is never shifted out, and with a
\* word queued the next word is in the shift register before the next bit
\* is due.
C16_WireShape ==
    LET n == IF format = "RGB8" THEN 24 ELSE 32
    IN  /\ Len(wire) <= n
        /\ wire = SubSeq(WireBits(osrColor, format), 1, Len(wire))
        /\ (wire # <<>> => Len(wire) = osrCount)
C16_WireStep ==
    LET n == IF format = "RGB8" THEN 24 ELSE 32
    IN  /\ (wire' = <<>> /\ wire # <<>> => Len(wire) = n /\ osrColor' = Head(pending))
        /\ (OutExecutes => Len(wire) < n /\ Len(wire') = Len(wire) + 1)
        /\ (Len(wire) = n /\ fifo # <<>> /\ cell' # cell => wire' = <<>> /\ osrCount' = 0)
C16_WireBits == []C16_WireShape /\ [][C16_WireStep]_vars
C16_Witness ==
    /\ format = "RGB8" /\ osrColor = Rgbw(1, 2, 3, 4)
    /\ wire = <<0,0,0,0,0,0,1,0, 0,0,0,0,0,0,0,1, 0,0,0,0,0,0,1,1>>
    /\ fifo # <<>>

\* C17: whenever the started state machine is stalled waiting for a word,
\* the line is low, whatever the last bit was; the line is high only in
\* the start phase of a bit and in the data phase of a one.
C17_IdleLow ==
    /\ (smStalled =>
           line = 0 /\ running /\ osrCount >= (IF format = "RGB8" THEN 24 ELSE 32))
    /\ (line = 1 =>
           /\ ~smStalled
           /\ Len(cell) \in 4..10
           /\ (Len(cell) > 5 => regX = 1))
C17_Witness ==
    smStalled /\ regX = 1 /\ line = 0 /\ wire # <<>> /\ Len(cell) = 10

====
